---------------------------- MODULE Spec2Model ----------------------------
(***************************************************************************)
(* Retail KPI analytics pipeline: the synthetic data generator             *)
(* (src/data/generate_synthetic_data.py) and the CSV-to-SQLite loader      *)
(* (src/python/load_to_database.py), as state machines.                    *)
(*                                                                         *)
(* Specifications:                                                         *)
(*   Spec        the generator script run as __main__ under its fixed seed,*)
(*               and re-run, over valid and invalid configurations         *)
(*   SpecStream  the generator script under an arbitrary random stream     *)
(*   SpecDate    generate_dim_date() over a wide range of N_DAYS           *)
(*   SpecLabour  generate_fact_labour(dim_date) applied to a date table    *)
(*   SpecLoad    the loader's main(), re-run over unchanged source files   *)
(*                                                                         *)
(* Numbers with a fractional part are fixed-point integers: money in       *)
(* pence, hours in hundredths, probabilities in percent.                   *)
(***************************************************************************)
EXTENDS Integers, Sequences, FiniteSets, TLC

VARIABLES
    \* ---- generate_synthetic_data.py
    N_STORES, N_PRODUCTS, N_DAYS,   \* the CONFIG block
    empty_str_raises,               \* the installed pandas: .str on an empty column raises
    rng,        \* state of numpy's global random generator
    pc,         \* control point of the script
    pos, inner, \* outer and inner loop positions of the running function
    rows,       \* the list the running function appends to
    dim_date, dim_store, dim_product,
    transactions,                   \* generate_fact_transactions' list
    tid,                            \* generate_fact_transactions' tid
    n_transactions,                 \* rows still to make for this store-day
    cur,                            \* locals of the transaction being made
    fact_transactions, fact_labour, fact_shrinkage,
    gruns,      \* how many times the generator has been started
    \* ---- shared
    files,      \* data/generated/<name>.csv : [exists, rows]
    \* ---- load_to_database.py
    db,         \* data/retail_kpi.db : table name -> [present, rows]
    lpc,        \* loader control point: "loop", "done", "crashed"
    lidx,       \* position of main()'s for loop in `tables` (1-based)
    total,      \* main()'s running total
    out,        \* loader's standard output, one tuple per print
    lruns       \* how many times the loader has been started

\* the generator's own state
gvars == <<N_STORES, N_PRODUCTS, N_DAYS, empty_str_raises, rng, pc, pos, inner, rows,
           dim_date, dim_store, dim_product, transactions, tid,
           n_transactions, cur, fact_transactions, fact_labour,
           fact_shrinkage, gruns>>

\* the loader's own state
lvars == <<db, lpc, lidx, total, out, lruns>>

vars == <<gvars, files, lvars>>

-----------------------------------------------------------------------------
(* Bounds of the model *)

\* number of states of the model's random generator; numpy's Mersenne
\* Twister is modelled as a linear congruential generator of this modulus
RngMod == 64
\* N_STORES ranges over -1..MaxStores
MaxStores == 2
\* N_DAYS ranges over -1..MaxRunDays where the whole script is run
MaxRunDays == 2
\* N_PRODUCTS ranges up to 20 * MaxProductBlocks
MaxProductBlocks == 1
\* N_DAYS ranges over -1..MaxDays where generate_dim_date is checked alone
MaxDays == 731
\* how many times the operator runs the generator
GenRuns == 2
\* longest source file (in rows) the loader is given
MaxRows == 2
\* how many times the operator runs the loader
LoaderRuns == 2

-----------------------------------------------------------------------------
(* Arithmetic and text helpers: what Python's int(), round(), str.format   *)
(* and int(str) do                                                         *)

\* int(x) for the fraction a/b, b > 0: truncation toward zero
Trunc(a, b) == IF a >= 0 THEN a \div b ELSE -((-a) \div b)

\* round(a/b) for a >= 0, b > 0, to the nearest unit
Round(a, b) == (2 * a + b) \div (2 * b)

DigitChar == <<"0", "1", "2", "3", "4", "5", "6", "7", "8", "9">>

RECURSIVE Digits(_)
\* str(v) for v >= 0, as a sequence of characters
Digits(v) == IF v < 10 THEN <<DigitChar[v + 1]>>
             ELSE Append(Digits(v \div 10), DigitChar[(v % 10) + 1])

\* zero-fill of the digit string ds to width w
ZeroFill(ds, w) ==
    IF Len(ds) >= w THEN ds
    ELSE [k \in 1..w |-> IF k <= w - Len(ds) THEN "0" ELSE ds[k - (w - Len(ds))]]

\* f'{v:0{w}d}': the sign, when there is one, counts in the width
ZeroPad(v, w) ==
    IF v >= 0 THEN ZeroFill(Digits(v), w)
    ELSE <<"-">> \o ZeroFill(Digits(-v), w - 1)

RECURSIVE ParseInt(_)
\* int(s) for a string of digits
ParseInt(s) ==
    IF Len(s) = 0 THEN 0
    ELSE 10 * ParseInt(SubSeq(s, 1, Len(s) - 1))
         + (CHOOSE d \in 0..9 : DigitChar[d + 1] = s[Len(s)])

-----------------------------------------------------------------------------
(* numpy.random: the global generator and the draws the script makes       *)

\* the seed of np.random.seed(42)
SEED == 42

\* one step of the generator
RngNext(s) == (5 * s + 3) % RngMod

\* the generator state k draws after s
RECURSIVE RngSkip(_, _)
RngSkip(s, k) == IF k = 0 THEN s ELSE RngSkip(RngNext(s), k - 1)

\* a process that never called np.random.seed keeps its entropy-drawn state
np_random_seed_skipped(entropy, seed) == entropy

\* np.random.seed(seed): replaces the state the process started with
np_random_seed(entropy, seed) == seed % RngMod

\* np.random.random() < pct/100, drawn from state s
RandomBelow(s, pct) == s * 100 < pct * RngMod

\* np.random.randint(low, high) from state s: raises when low >= high
RandInt(s, low, high) == low + (s * (high - low)) \div RngMod

\* np.random.uniform(low, high) from state s, in the unit of low and high
Uniform(s, low, high) == low + (s * (high - low)) \div RngMod

\* sum of a probability vector given in percent
RECURSIVE SumSeq(_)
SumSeq(p) == IF Len(p) = 0 THEN 0 ELSE p[Len(p)] + SumSeq(SubSeq(p, 1, Len(p) - 1))

\* np.random.choice(a, p=p) checks that p sums to 1 and raises ValueError
\* ("probabilities do not sum to 1") when it does not
ProbabilitiesSumToOne(p) == SumSeq(p) = 100

\* np.random.choice(a, p=p) from state s: the first element whose cumulative
\* probability exceeds the uniform draw
Choice(s, a, p) ==
    LET k == CHOOSE k \in 1..Len(a) :
                 /\ s * 100 < SumSeq(SubSeq(p, 1, k)) * RngMod
                 /\ \A m \in 1..(k - 1) : ~(s * 100 < SumSeq(SubSeq(p, 1, m)) * RngMod)
    IN a[k]

\* np.random.choice(a) without p: uniform over a
ChoiceUniform(s, a) == a[RandInt(s, 1, Len(a) + 1)]

\* standard normal quantiles, in hundredths, one per eighth of the unit interval
NormalZ == <<-350, -120, -60, -20, 20, 60, 120, 350>>

\* np.random.normal(mean, sd) from state s, in hundredths
Normal(s, mean, sd) == 100 * mean + sd * NormalZ[((s * 8) \div RngMod) + 1]

\* -ln(1 - u) in hundredths, one per eighth of the unit interval
ExpQ == <<7, 21, 38, 58, 82, 116, 170, 300>>

\* np.random.exponential(scale) from state s, in hundredths
Exponential(s, scale) == scale * ExpQ[((s * 8) \div RngMod) + 1]

\* the positions df.sample(k, random_state=seed) keeps out of n, in order: a
\* private generator seeded with `seed` draws without replacement
RECURSIVE SamplePick(_, _, _)
SamplePick(s, left, k) ==
    IF k = 0 \/ Len(left) = 0 THEN <<>>
    ELSE LET at == RandInt(s, 1, Len(left) + 1)
         IN <<left[at]>> \o
            SamplePick(RngNext(s),
                       [m \in 1..(Len(left) - 1) |-> IF m < at THEN left[m] ELSE left[m + 1]],
                       k - 1)

SampleIndex(n, k, seed) == SamplePick(seed % RngMod, [m \in 1..n |-> m], k)

-----------------------------------------------------------------------------
(* datetime: the proleptic Gregorian calendar of Python's datetime module  *)

IsLeap(y) == y % 4 = 0 /\ (y % 100 # 0 \/ y % 400 = 0)

DaysInMonth(y, m) ==
    IF m = 2 THEN (IF IsLeap(y) THEN 29 ELSE 28)
    ELSE IF m \in {4, 6, 9, 11} THEN 30 ELSE 31

\* days before January 1st of year y
DaysBeforeYear(y) ==
    LET p == y - 1 IN p * 365 + p \div 4 - p \div 100 + p \div 400

\* days of year y before the first of month m
DaysBeforeMonth(y, m) ==
    <<0, 31, 59, 90, 120, 151, 181, 212, 243, 273, 304, 334>>[m]
    + (IF m > 2 /\ IsLeap(y) THEN 1 ELSE 0)

\* date.toordinal()
Ymd2Ord(d) == DaysBeforeYear(d.year) + DaysBeforeMonth(d.year, d.month) + d.day

\* START_DATE = datetime(2023, 1, 1)
START_DATE == [year |-> 2023, month |-> 1, day |-> 1]

\* the years a date of the model can fall in
Years == START_DATE.year .. (START_DATE.year + (MaxDays \div 365) + 1)

\* date.fromordinal(n)
Ord2Ymd(n) ==
    LET y == CHOOSE y \in Years : DaysBeforeYear(y) < n /\ n <= DaysBeforeYear(y + 1)
        r == n - DaysBeforeYear(y)
        m == CHOOSE m \in 1..12 :
                 DaysBeforeMonth(y, m) < r /\ r <= DaysBeforeMonth(y, m) + DaysInMonth(y, m)
    IN [year |-> y, month |-> m, day |-> r - DaysBeforeMonth(y, m)]

\* d + timedelta(days=n)
AddDays(d, n) == Ord2Ymd(Ymd2Ord(d) + n)

\* (d - e).days
DaysBetween(d, e) == Ymd2Ord(d) - Ymd2Ord(e)

\* d.weekday(): Monday is 0
Weekday(d) == (Ymd2Ord(d) + 6) % 7

\* ordinal of the Monday of ISO week 1 of year y
IsoWeek1Monday(y) ==
    LET firstday == DaysBeforeYear(y) + 1
        firstweekday == (firstday + 6) % 7
    IN IF firstweekday > 3 THEN firstday - firstweekday + 7 ELSE firstday - firstweekday

\* d.isocalendar()[1]
IsoWeek(d) ==
    LET today == Ymd2Ord(d)
        week == (today - IsoWeek1Monday(d.year)) \div 7
    IN IF week < 0 THEN ((today - IsoWeek1Monday(d.year - 1)) \div 7) + 1
       ELSE IF week >= 52 /\ today >= IsoWeek1Monday(d.year + 1) THEN 1
       ELSE week + 1

MonthName == <<"January", "February", "March", "April", "May", "June", "July",
               "August", "September", "October", "November", "December">>

DayName == <<"Monday", "Tuesday", "Wednesday", "Thursday", "Friday", "Saturday", "Sunday">>

\* d.strftime('%Y%m%d')
StrfKey(d) == ZeroPad(d.year, 4) \o ZeroPad(d.month, 2) \o ZeroPad(d.day, 2)

\* d.strftime('%Y-%m-%d')
StrfDate(d) == ZeroPad(d.year, 4) \o <<"-">> \o ZeroPad(d.month, 2) \o <<"-">> \o ZeroPad(d.day, 2)

-----------------------------------------------------------------------------
(* generate_synthetic_data.py *)

\* a fiscal week taken from the ISO week number instead of the day count
FiscalWeekIso(d) == IsoWeek(d)

\* generate_dim_date: ((d - START_DATE).days // 7) + 1
FiscalWeek(d) == (DaysBetween(d, START_DATE) \div 7) + 1

\* generate_dim_date: one row of the frame, before the holiday marking
DimDateRow(d) ==
    [date_key        |-> StrfKey(d),
     full_date       |-> StrfDate(d),
     year            |-> d.year,
     month           |-> d.month,
     month_name      |-> MonthName[d.month],
     quarter         |-> ((d.month - 1) \div 3) + 1,
     day_of_week     |-> Weekday(d),
     day_name        |-> DayName[Weekday(d) + 1],
     week_number     |-> IsoWeek(d),
     fiscal_week     |-> FiscalWeek(d),
     fiscal_year     |-> IF d.year = 2023 THEN 2023 ELSE 2024,
     is_weekend      |-> IF Weekday(d) >= 5 THEN 1 ELSE 0,
     is_bank_holiday |-> 0]

\* generate_dim_date, line 48: a row after
\* df.loc[(month == 12) & (full_date.str[8:10].astype(int) >= 15)] = 1
MarkChristmas(r) ==
    IF r.month = 12 /\ ParseInt(SubSeq(r.full_date, 9, 10)) >= 15
    THEN [r EXCEPT !.is_bank_holiday = 1] ELSE r

\* generate_dim_date, lines 31-46: the frame before the holiday marking;
\* range(n) is empty for n <= 0
BuildDimDate(n_days) ==
    [k \in 1..n_days |-> DimDateRow(AddDays(START_DATE, k - 1))]

\* generate_dim_date, line 48 over the whole frame
MarkChristmasAll(df) == [k \in 1..Len(df) |-> MarkChristmas(df[k])]

\* generate_dim_date(), when line 48 does not raise
generate_dim_date(n_days) == MarkChristmasAll(BuildDimDate(n_days))

\* variable groups, for the UNCHANGED clauses
cfgv == <<N_STORES, N_PRODUCTS, N_DAYS, empty_str_raises, gruns>>
dimv == <<dim_date, dim_store, dim_product>>
txnv == <<transactions, tid, n_transactions, cur>>
factv == <<fact_transactions, fact_labour, fact_shrinkage>>
loopv == <<pos, inner, rows>>

\* locals of a transaction not yet drawn
NoCur == [product_id |-> 0, unit_price |-> 0, quantity |-> 0,
          branch |-> "none", tid_val |-> 0]

\* lines 18-27: np.random.seed(42), random.seed(42), the CONFIG constants,
\* os.makedirs(OUTPUT_DIR, exist_ok=True)
GenStart ==
    /\ pc = "start"
    /\ rng' = np_random_seed(rng, SEED)
    /\ pc' = "gen_dim_date"
    /\ UNCHANGED <<cfgv, loopv, dimv, txnv, factv, files, lvars>>

\* generate_dim_date, lines 31-46: the dates and the frame built from them
GenDimDate ==
    /\ pc = "gen_dim_date"
    /\ rows' = BuildDimDate(N_DAYS)
    /\ pc' = "mark_christmas"
    /\ UNCHANGED <<cfgv, rng, pos, inner, dimv, txnv, factv, files, lvars>>

\* generate_dim_date, lines 48-49: the holiday marking and the return. On a
\* frame without rows the columns hold no strings: whether .str then raises
\* AttributeError depends on the dtype the installed pandas gives an empty
\* column (empty_str_raises)
GenDimDateMark ==
    /\ pc = "mark_christmas"
    /\ IF Len(rows) = 0 /\ empty_str_raises
       THEN /\ pc' = "crashed"
            /\ UNCHANGED <<dim_date, pos, inner, rows>>
       ELSE /\ dim_date' = MarkChristmasAll(rows)
            /\ pc' = "gen_dim_store"
            /\ pos' = 1 /\ inner' = 0 /\ rows' = <<>>
    /\ UNCHANGED <<cfgv, rng, dim_store, dim_product, txnv, factv, files, lvars>>

\* generate_dim_store: the region and format lists
Regions == <<"London", "South East", "Midlands", "North West", "Yorkshire",
             "Scotland", "Wales", "South West", "North East", "East Anglia">>

Formats == <<"High Street", "Retail Park", "Superstore", "Local">>

\* generate_dim_store: the row of store k, two draws
DimStoreRow(k, s) ==
    [store_id            |-> k,
     store_name          |-> <<"Store ">> \o ZeroPad(k, 3),
     region              |-> Regions[(k % Len(Regions)) + 1],
     format              |-> Formats[(k % Len(Formats)) + 1],
     size_sqft           |-> RandInt(s, 3000, 20000),
     manager_id          |-> k,
     opening_date        |-> "2015-01-01",
     target_weekly_sales |-> RandInt(RngNext(s), 80000, 250000)]

\* dim_store = generate_dim_store(): one pass of `for i in range(1, N_STORES + 1)`,
\* or the return once the range is used up
DimStoreStep ==
    /\ pc = "gen_dim_store"
    /\ IF pos <= N_STORES
       THEN /\ rows' = Append(rows, DimStoreRow(pos, rng))
            /\ rng' = RngSkip(rng, 2)
            /\ pos' = pos + 1
            /\ UNCHANGED <<pc, inner, dim_store>>
       ELSE /\ dim_store' = rows
            /\ pc' = "gen_dim_product"
            /\ pos' = 1 /\ inner' = 0 /\ rows' = <<>>
            /\ UNCHANGED rng
    /\ UNCHANGED <<cfgv, dim_date, dim_product, txnv, factv, files, lvars>>

\* generate_dim_product: categories.items() with their subcategories, flattened
\* in insertion order
SubCategories ==
    <<<<"Frozen", "Ready Meals">>, <<"Frozen", "Ice Cream">>,
      <<"Frozen", "Vegetables">>, <<"Frozen", "Meat">>,
      <<"Grocery", "Tinned Goods">>, <<"Grocery", "Cereals">>,
      <<"Grocery", "Condiments">>, <<"Grocery", "Pasta">>,
      <<"Chilled", "Dairy">>, <<"Chilled", "Cooked Meats">>,
      <<"Chilled", "Salads">>, <<"Chilled", "Dips">>,
      <<"Bakery", "Bread">>, <<"Bakery", "Cakes">>, <<"Bakery", "Pastries">>,
      <<"Drinks", "Soft Drinks">>, <<"Drinks", "Juices">>,
      <<"Drinks", "Water">>, <<"Drinks", "Energy">>,
      <<"Household", "Cleaning">>, <<"Household", "Paper">>,
      <<"Household", "Laundry">>>>

\* generate_dim_product: n = N_PRODUCTS // 20 (floor division)
ProductsPerSubcat(n_products) == n_products \div 20

\* generate_dim_product: the row of product pid, four draws; prices in pence
DimProductRow(pid, sc, s) ==
    LET price == Uniform(s, 49, 899)
    IN [product_id   |-> pid,
        product_name |-> <<sc[2], " Product ">> \o Digits(pid),
        category     |-> sc[1],
        subcategory  |-> sc[2],
        unit_price   |-> price,
        cost_price   |-> ((price * Uniform(RngNext(s), 45, 70)) + 50) \div 100,
        margin_band  |-> IF price < 200 THEN "Low"
                         ELSE IF price < 500 THEN "Mid" ELSE "High",
        supplier_id  |-> RandInt(RngSkip(s, 2), 1, 50),
        is_own_label |-> Choice(RngSkip(s, 3), <<0, 1>>, <<60, 40>>)]

\* dim_product = generate_dim_product(): one pass of the innermost loop, the
\* move to the next subcategory, or the return; pid is len(products) + 1
DimProductStep ==
    /\ pc = "gen_dim_product"
    /\ IF pos > Len(SubCategories)
       THEN /\ dim_product' = rows
            /\ pc' = "write_dim_date"
            /\ pos' = 1 /\ inner' = 0 /\ rows' = <<>>
            /\ UNCHANGED rng
       ELSE IF inner >= ProductsPerSubcat(N_PRODUCTS)
       THEN /\ pos' = pos + 1 /\ inner' = 0
            /\ UNCHANGED <<rng, rows, pc, dim_product>>
       ELSE /\ rows' = Append(rows, DimProductRow(Len(rows) + 1, SubCategories[pos], rng))
            /\ rng' = RngSkip(rng, 4)
            /\ inner' = inner + 1
            /\ UNCHANGED <<pos, pc, dim_product>>
    /\ UNCHANGED <<cfgv, dim_date, dim_store, txnv, factv, files, lvars>>

\* df.to_csv(f'{OUTPUT_DIR}/<name>.csv', index=False): the file is created or
\* overwritten with the frame's rows
ToCsv(name, df) == [files EXCEPT ![name] = [exists |-> TRUE, rows |-> df]]

\* lines 208-213
WriteDimDate ==
    /\ pc = "write_dim_date"
    /\ files' = ToCsv("dim_date", dim_date)
    /\ pc' = "write_dim_store"
    /\ UNCHANGED <<cfgv, rng, loopv, dimv, txnv, factv, lvars>>

WriteDimStore ==
    /\ pc = "write_dim_store"
    /\ files' = ToCsv("dim_store", dim_store)
    /\ pc' = "write_dim_product"
    /\ UNCHANGED <<cfgv, rng, loopv, dimv, txnv, factv, lvars>>

WriteDimProduct ==
    /\ pc = "write_dim_product"
    /\ files' = ToCsv("dim_product", dim_product)
    /\ pc' = "gen_txn"
    /\ UNCHANGED <<cfgv, rng, loopv, dimv, txnv, factv, lvars>>

\* generate_fact_transactions: the constants of lines 121-133 and 153-154
VOLUME_MEAN == 150
VOLUME_SD == 30
VOLUME_FLOOR == 50
VOLUME_CEIL == 350
ORPHAN_PCT == 2
ORPHAN_PRODUCT == 9999
DUPLICATE_PCT == 1
DUPLICATE_REACH == 10
SAMPLE_CAP == 200000
SAMPLE_SEED == 42

\* generate_fact_transactions: quantity choices and their probabilities (percent)
QUANTITIES == <<1, 1, 1, 2, 2, 3>>
QUANTITY_P == <<40, 25, 15, 10, 7, 3>>

\* generate_fact_transactions: range(7, 22) and the p= list of line 143 (percent)
HOURS == <<7, 8, 9, 10, 11, 12, 13, 14, 15, 16, 17, 18, 19, 20, 21>>
HOUR_P == <<2, 4, 8, 10, 12, 12, 11, 10, 9, 8, 6, 4, 3, 1, 1>>

\* lines 115-118: the seasonal multiplier of a date row, in ten-thousandths
Seasonal(date_row) ==
    LET s1 == IF date_row.month = 12 THEN 14000 ELSE 10000
        s2 == IF date_row.month \in {7, 8} THEN 8500 ELSE s1
    IN IF date_row.day_of_week \in {4, 5} THEN (s2 * 115) \div 100 ELSE s2

\* lines 121-122: int(np.random.normal(150, 30) * seasonal), clamped
Volume(s, date_row) ==
    LET n == Trunc(Normal(s, VOLUME_MEAN, VOLUME_SD) * Seasonal(date_row), 1000000)
        capped == IF n > VOLUME_CEIL THEN VOLUME_CEIL ELSE n
    IN IF capped < VOLUME_FLOOR THEN VOLUME_FLOOR ELSE capped

\* line 138: f'T{tid_val:08d}'
FormatTid(tid_val) == <<"T">> \o ZeroPad(tid_val, 8)

\* transactions = []; tid = 1
TxnEnter ==
    /\ pc = "gen_txn"
    /\ transactions' = <<>> /\ tid' = 1 /\ n_transactions' = 0 /\ cur' = NoCur
    /\ pos' = 1 /\ inner' = 1 /\ rows' = <<>>
    /\ pc' = "txn_dates"
    /\ UNCHANGED <<cfgv, rng, dimv, factv, files, lvars>>

\* `for store_id in range(1, N_STORES + 1)` is used up: next date row
TxnNextDate ==
    /\ pc = "txn_dates"
    /\ pos <= Len(dim_date) /\ inner > N_STORES
    /\ pos' = pos + 1 /\ inner' = 1
    /\ UNCHANGED <<cfgv, rng, pc, rows, dimv, txnv, factv, files, lvars>>

\* lines 121-122: the volume of this store-day
TxnVolume ==
    /\ pc = "txn_dates"
    /\ pos <= Len(dim_date) /\ inner <= N_STORES
    /\ n_transactions' = Volume(rng, dim_date[pos])
    /\ rng' = RngNext(rng)
    /\ pc' = "txn_rows"
    /\ UNCHANGED <<cfgv, loopv, dimv, transactions, tid, cur, factv, files, lvars>>

\* lines 124-135: `for _ in range(n_transactions)`: either the range is used
\* up (next store), or a transaction is drawn up to its tid_val;
\* np.random.randint(1, 1) raises ValueError when dim_product is empty
TxnDraw ==
    /\ pc = "txn_rows"
    /\ IF n_transactions = 0
       THEN /\ inner' = inner + 1
            /\ pc' = "txn_dates"
            /\ UNCHANGED <<rng, cur>>
       ELSE IF Len(dim_product) = 0
       THEN /\ pc' = "crashed"
            /\ UNCHANGED <<rng, cur, inner>>
       ELSE LET s_qty    == RngNext(rng)
                s_orphan == RngSkip(rng, 2)
                s_dup    == RngSkip(rng, 3)
                s_back   == RngSkip(rng, 4)
                picked   == RandInt(rng, 1, Len(dim_product) + 1)
                product  == dim_product[CHOOSE k \in 1..Len(dim_product) :
                                            dim_product[k].product_id = picked]
                dup      == RandomBelow(s_dup, DUPLICATE_PCT)
            IN /\ cur' = [product_id |-> IF RandomBelow(s_orphan, ORPHAN_PCT)
                                         THEN ORPHAN_PRODUCT ELSE picked,
                          unit_price |-> product.unit_price,
                          quantity   |-> Choice(s_qty, QUANTITIES, QUANTITY_P),
                          branch     |-> IF dup THEN "duplicate" ELSE "fresh",
                          tid_val    |-> IF dup
                                         THEN tid - RandInt(s_back, 1, DUPLICATE_REACH)
                                         ELSE tid]
               /\ rng' = IF dup THEN RngSkip(rng, 5) ELSE RngSkip(rng, 4)
               /\ pc' = "txn_append"
               /\ UNCHANGED inner
    /\ UNCHANGED <<cfgv, pos, rows, dimv, transactions, tid, n_transactions,
                   factv, files, lvars>>

\* lines 137-149: the row is built and appended, tid += 1; building it calls
\* np.random.choice(range(7, 22), p=[...]), which raises ValueError when the
\* probabilities do not sum to 1
TxnAppend ==
    /\ pc = "txn_append"
    /\ IF ProbabilitiesSumToOne(HOUR_P)
       THEN /\ transactions' = Append(transactions,
                   [transaction_id   |-> FormatTid(cur.tid_val),
                    store_id         |-> inner,
                    product_id       |-> cur.product_id,
                    transaction_date |-> dim_date[pos].full_date,
                    transaction_hour |-> Choice(rng, HOURS, HOUR_P),
                    quantity         |-> cur.quantity,
                    unit_price       |-> cur.unit_price,
                    net_sales_value  |-> cur.quantity * cur.unit_price,
                    transaction_type |-> "SALE"])
            /\ rng' = RngNext(rng)
            /\ tid' = tid + 1
            /\ n_transactions' = n_transactions - 1
            /\ pc' = "txn_rows"
       ELSE /\ pc' = "crashed"
            /\ UNCHANGED <<transactions, rng, tid, n_transactions>>
    /\ UNCHANGED <<cfgv, loopv, dimv, cur, factv, files, lvars>>

\* lines 151-155: the frame of the rows, sampled down to the cap when longer
CapSample(raw) ==
    IF Len(raw) > SAMPLE_CAP
    THEN LET keep == SampleIndex(Len(raw), SAMPLE_CAP, SAMPLE_SEED)
         IN [k \in 1..SAMPLE_CAP |-> raw[keep[k]]]
    ELSE raw

\* fact_transactions = generate_fact_transactions(...): the dates are used up
TxnReturn ==
    /\ pc = "txn_dates"
    /\ pos > Len(dim_date)
    /\ fact_transactions' = CapSample(transactions)
    /\ pc' = "gen_labour"
    /\ pos' = 1 /\ inner' = 1 /\ rows' = <<>>
    /\ UNCHANGED <<cfgv, rng, dimv, txnv, fact_labour, fact_shrinkage, files, lvars>>

\* a store loop that stops one store short
LabourLastStoreShort(n_stores) == n_stores - 1

\* generate_fact_labour: the last store id of `range(1, N_STORES + 1)`
LabourLastStore(n_stores) == n_stores

\* generate_fact_labour: a row, three draws; hours in tenths, money in pence
LabourRow(store_id, date_row, s) ==
    LET contracted  == Uniform(s, 4000, 12000)
        factor      == Uniform(RngNext(s), 90, 115)
        hourly_rate == Uniform(RngSkip(s, 2), 1042, 1350)
    IN [store_id          |-> store_id,
        shift_date        |-> date_row.full_date,
        fiscal_week       |-> date_row.fiscal_week,
        contracted_hours  |-> (contracted + 5) \div 10,
        actual_hours      |-> ((contracted * factor) + 500) \div 1000,
        hourly_rate       |-> hourly_rate,
        total_labour_cost |-> ((contracted * factor * hourly_rate) + 5000) \div 10000]

\* fact_labour = generate_fact_labour(dim_date): one row, the move to the next
\* date row, or the return
LabourStep ==
    /\ pc = "gen_labour"
    /\ IF pos > Len(dim_date)
       THEN /\ fact_labour' = rows
            /\ pc' = "gen_shrinkage"
            /\ pos' = 1 /\ inner' = 1 /\ rows' = <<>>
            /\ UNCHANGED rng
       ELSE IF inner > LabourLastStore(N_STORES)
       THEN /\ pos' = pos + 1 /\ inner' = 1
            /\ UNCHANGED <<rng, rows, pc, fact_labour>>
       ELSE /\ rows' = Append(rows, LabourRow(inner, dim_date[pos], rng))
            /\ rng' = RngSkip(rng, 3)
            /\ inner' = inner + 1
            /\ UNCHANGED <<pos, pc, fact_labour>>
    /\ UNCHANGED <<cfgv, dimv, txnv, fact_transactions, fact_shrinkage, files, lvars>>

\* generate_fact_shrinkage: the cause codes with their probabilities (percent)
\* and the categories
CAUSE_CODES == <<"SHOPLIFTING", "ADMIN_ERROR", "SUPPLIER_FRAUD", "STAFF_THEFT", "WASTAGE">>
CAUSE_P == <<45, 20, 10, 10, 15>>
CATEGORIES == <<"Frozen", "Grocery", "Chilled", "Bakery", "Drinks", "Household">>

\* generate_fact_shrinkage: a row, drawn after the `< 0.3` draw at state s
ShrinkageRow(store_id, date_row, s) ==
    LET base  == Exponential(RngNext(s), 50)
        spike == RandomBelow(RngSkip(s, 2), 5)
    IN [store_id        |-> store_id,
        shrinkage_date  |-> date_row.full_date,
        fiscal_week     |-> date_row.fiscal_week,
        cause_code      |-> Choice(RngSkip(s, 3), CAUSE_CODES, CAUSE_P),
        category        |-> ChoiceUniform(RngSkip(s, 4), CATEGORIES),
        shrinkage_value |-> IF spike THEN base * 5 ELSE base]

\* fact_shrinkage = generate_fact_shrinkage(dim_date): one store-day (a row
\* for three in ten), the move to the next date row, or the return
ShrinkageStep ==
    /\ pc = "gen_shrinkage"
    /\ IF pos > Len(dim_date)
       THEN /\ fact_shrinkage' = rows
            /\ pc' = "write_fact_transactions"
            /\ pos' = 1 /\ inner' = 1 /\ rows' = <<>>
            /\ UNCHANGED rng
       ELSE IF inner > N_STORES
       THEN /\ pos' = pos + 1 /\ inner' = 1
            /\ UNCHANGED <<rng, rows, pc, fact_shrinkage>>
       ELSE /\ IF RandomBelow(rng, 30)
               THEN /\ rows' = Append(rows, ShrinkageRow(inner, dim_date[pos], rng))
                    /\ rng' = RngSkip(rng, 5)
               ELSE /\ rng' = RngNext(rng)
                    /\ UNCHANGED rows
            /\ inner' = inner + 1
            /\ UNCHANGED <<pos, pc, fact_shrinkage>>
    /\ UNCHANGED <<cfgv, dimv, txnv, fact_transactions, fact_labour, files, lvars>>

\* lines 220-228
WriteFactTransactions ==
    /\ pc = "write_fact_transactions"
    /\ files' = ToCsv("fact_transactions", fact_transactions)
    /\ pc' = "write_fact_labour"
    /\ UNCHANGED <<cfgv, rng, loopv, dimv, txnv, factv, lvars>>

WriteFactLabour ==
    /\ pc = "write_fact_labour"
    /\ files' = ToCsv("fact_labour", fact_labour)
    /\ pc' = "write_fact_shrinkage"
    /\ UNCHANGED <<cfgv, rng, loopv, dimv, txnv, factv, lvars>>

WriteFactShrinkage ==
    /\ pc = "write_fact_shrinkage"
    /\ files' = ToCsv("fact_shrinkage", fact_shrinkage)
    /\ pc' = "done"
    /\ UNCHANGED <<cfgv, rng, loopv, dimv, txnv, factv, lvars>>

\* the state of a generator process that has not run a line yet
GenFresh ==
    /\ pos = 1 /\ inner = 1 /\ rows = <<>>
    /\ dim_store = <<>> /\ dim_product = <<>>
    /\ transactions = <<>> /\ tid = 1 /\ n_transactions = 0 /\ cur = NoCur
    /\ fact_transactions = <<>> /\ fact_labour = <<>> /\ fact_shrinkage = <<>>

\* the operator runs the script again: a new process with the same CONFIG,
\* whose generator starts from fresh entropy; the files of the last run stay
GenRerun ==
    /\ pc \in {"done", "crashed"}
    /\ gruns < GenRuns
    /\ gruns' = gruns + 1
    /\ rng' \in 0..(RngMod - 1)
    /\ pc' = "start"
    /\ pos' = 1 /\ inner' = 1 /\ rows' = <<>>
    /\ dim_date' = <<>> /\ dim_store' = <<>> /\ dim_product' = <<>>
    /\ transactions' = <<>> /\ tid' = 1 /\ n_transactions' = 0 /\ cur' = NoCur
    /\ fact_transactions' = <<>> /\ fact_labour' = <<>> /\ fact_shrinkage' = <<>>
    /\ UNCHANGED <<N_STORES, N_PRODUCTS, N_DAYS, empty_str_raises, files, lvars>>

-----------------------------------------------------------------------------
(* load_to_database.py *)

\* main(): the declared (file, table) mappings, in order; all in schema bronze
tables == <<"dim_date", "dim_store", "dim_product",
            "fact_transactions", "fact_labour", "fact_shrinkage">>

NTables == Len(tables)

NoFile == [exists |-> FALSE, rows |-> <<>>]
NoTable == [present |-> FALSE, rows |-> <<>>]

\* abstract CSV rows: row i of a file is the number i
RowsOfLen(n) == [i \in 1..n |-> i]

\* rows left in a table by an earlier load of other data: longer than any file
StaleRows == [i \in 1..(MaxRows + 1) |-> 0]

\* df.to_sql(..., if_exists='append'): what a load that appended would store
ToSqlAppend(old, df) == [present |-> TRUE, rows |-> old.rows \o df]

\* df.to_sql(table_name, engine, schema=schema, if_exists='replace', index=False)
ToSqlReplace(old, df) == [present |-> TRUE, rows |-> df]

\* a missing file handled as a fatal error instead of a warning
WarnMissingFatal ==
    /\ lpc = "loop" /\ lidx <= NTables
    /\ ~files[tables[lidx]].exists
    /\ lpc' = "crashed"
    /\ UNCHANGED <<files, gvars, db, lidx, total, out, lruns>>

\* main(), else branch: the file is missing, print the warning and go on
WarnMissing ==
    /\ lpc = "loop" /\ lidx <= NTables
    /\ ~files[tables[lidx]].exists
    /\ out' = Append(out, <<"WARNING", tables[lidx]>>)
    /\ lidx' = lidx + 1
    /\ UNCHANGED <<files, gvars, db, lpc, total, lruns>>

\* main(), then branch: load_table returns len(df), added to total
LoadTableOk ==
    /\ lpc = "loop" /\ lidx <= NTables
    /\ files[tables[lidx]].exists
    /\ LET t  == tables[lidx]
           df == files[t].rows
       IN /\ db' = [db EXCEPT ![t] = ToSqlReplace(db[t], df)]
          /\ out' = Append(out, <<"Loaded", t, Len(df)>>)
          /\ total' = total + Len(df)
    /\ lidx' = lidx + 1
    /\ UNCHANGED <<files, gvars, lpc, lruns>>

\* load_table: pd.read_csv raises (unreadable or empty file); nothing is
\* caught in load_table or main, so the exception ends the process
LoadTableReadError ==
    /\ lpc = "loop" /\ lidx <= NTables
    /\ files[tables[lidx]].exists
    /\ lpc' = "crashed"
    /\ UNCHANGED <<files, gvars, db, lidx, total, out, lruns>>

\* load_table: df.to_sql raises (storage error); the replaced table is left
\* as it was or dropped, and the exception ends the process
LoadTableWriteError ==
    /\ lpc = "loop" /\ lidx <= NTables
    /\ files[tables[lidx]].exists
    /\ \E kept \in BOOLEAN :
          db' = [db EXCEPT ![tables[lidx]] = IF kept THEN @ ELSE NoTable]
    /\ lpc' = "crashed"
    /\ UNCHANGED <<files, gvars, lidx, total, out, lruns>>

\* main(): after the loop, print the total
PrintTotal ==
    /\ lpc = "loop" /\ lidx > NTables
    /\ out' = Append(out, <<"Total", total>>)
    /\ lpc' = "done"
    /\ UNCHANGED <<files, gvars, db, lidx, total, lruns>>

\* the operator runs the loader again: a new process, same files, same database
LoaderRerun ==
    /\ lpc \in {"done", "crashed"}
    /\ lruns < LoaderRuns
    /\ lruns' = lruns + 1
    /\ lpc' = "loop" /\ lidx' = 1 /\ total' = 0 /\ out' = <<>>
    /\ UNCHANGED <<files, gvars, db>>

-----------------------------------------------------------------------------
(* Specifications *)

FileNames == {tables[k] : k \in 1..NTables}

\* the loader has not been started
LoaderIdle ==
    /\ db = [t \in FileNames |-> NoTable]
    /\ lpc = "loop" /\ lidx = 1 /\ total = 0 /\ out = <<>> /\ lruns = 1

\* the generator has not been started (the loader is run on files of its own)
GeneratorIdle ==
    /\ N_STORES = 0 /\ N_PRODUCTS = 0 /\ N_DAYS = 0 /\ rng = 0 /\ gruns = 1
    /\ empty_str_raises = FALSE
    /\ pc = "start" /\ dim_date = <<>> /\ GenFresh

\* N_PRODUCTS: negative, zero, below one block of 20, and whole blocks
ProductChoices == {-20, 0, 19} \cup {20 * b : b \in 1..MaxProductBlocks}

\* the script started as __main__ in an empty output directory, for valid and
\* invalid CONFIG values
Init ==
    /\ N_STORES \in -1..MaxStores
    /\ N_DAYS \in -1..MaxRunDays
    /\ N_PRODUCTS \in ProductChoices
    /\ rng \in 0..(RngMod - 1)
    /\ empty_str_raises \in BOOLEAN
    /\ gruns = 1
    /\ pc = "start" /\ dim_date = <<>> /\ GenFresh
    /\ files = [f \in FileNames |-> NoFile]
    /\ LoaderIdle

Next ==
    \/ GenStart
    \/ GenDimDate
    \/ GenDimDateMark
    \/ DimStoreStep
    \/ DimProductStep
    \/ WriteDimDate
    \/ WriteDimStore
    \/ WriteDimProduct
    \/ TxnEnter
    \/ TxnNextDate
    \/ TxnVolume
    \/ TxnDraw
    \/ TxnAppend
    \/ TxnReturn
    \/ LabourStep
    \/ ShrinkageStep
    \/ WriteFactTransactions
    \/ WriteFactLabour
    \/ WriteFactShrinkage
    \/ GenRerun

Spec == Init /\ [][Next]_vars

\* the script's functions called in the script's order from any state of the
\* random generator, for CONFIG values with at least one product block
InitStream ==
    /\ N_STORES \in 0..MaxStores
    /\ N_DAYS \in 0..MaxRunDays
    /\ N_PRODUCTS \in {20 * b : b \in 1..MaxProductBlocks}
    /\ rng \in 0..(RngMod - 1)
    /\ empty_str_raises \in BOOLEAN
    /\ gruns = 1
    /\ pc = "gen_dim_date" /\ dim_date = <<>> /\ GenFresh
    /\ files = [f \in FileNames |-> NoFile]
    /\ LoaderIdle

NextStream ==
    \/ GenDimDate
    \/ GenDimDateMark
    \/ DimStoreStep
    \/ DimProductStep
    \/ WriteDimDate
    \/ WriteDimStore
    \/ WriteDimProduct
    \/ TxnEnter
    \/ TxnNextDate
    \/ TxnVolume
    \/ TxnDraw
    \/ TxnAppend
    \/ TxnReturn
    \/ LabourStep
    \/ ShrinkageStep
    \/ WriteFactTransactions
    \/ WriteFactLabour
    \/ WriteFactShrinkage

SpecStream == InitStream /\ [][NextStream]_vars

\* generate_dim_date() called for each N_DAYS up to MaxDays
InitDate ==
    /\ N_DAYS \in -1..MaxDays
    /\ N_STORES = 1 /\ N_PRODUCTS = 20
    /\ rng = np_random_seed(0, SEED)
    /\ empty_str_raises \in (IF N_DAYS <= 0 THEN BOOLEAN ELSE {FALSE})
    /\ gruns = 1
    /\ pc = "gen_dim_date" /\ dim_date = <<>> /\ GenFresh
    /\ files = [f \in FileNames |-> NoFile]
    /\ LoaderIdle

NextDate ==
    \/ GenDimDate
    \/ GenDimDateMark

SpecDate == InitDate /\ [][NextDate]_vars

\* generate_fact_labour(dim_date) called on the date table of each N_DAYS,
\* from any state of the random generator
InitLabour ==
    /\ N_STORES \in -1..MaxStores
    /\ N_DAYS \in -1..MaxRunDays
    /\ N_PRODUCTS = 20
    /\ rng \in 0..(RngMod - 1)
    /\ empty_str_raises = FALSE
    /\ gruns = 1
    /\ pc = "gen_labour" /\ dim_date = generate_dim_date(N_DAYS) /\ GenFresh
    /\ files = [f \in FileNames |-> NoFile]
    /\ LoaderIdle

NextLabour == LabourStep

SpecLabour == InitLabour /\ [][NextLabour]_vars

FileChoices == {NoFile} \cup {[exists |-> TRUE, rows |-> RowsOfLen(n)] : n \in 1..MaxRows}

\* the loader started on any mix of present and missing source files, over a
\* database that is empty or holds the tables of an earlier load
InitLoad ==
    /\ files \in [FileNames -> FileChoices]
    /\ \E stale \in BOOLEAN :
          db = [t \in FileNames |->
                   IF stale THEN [present |-> TRUE, rows |-> StaleRows] ELSE NoTable]
    /\ lpc = "loop" /\ lidx = 1 /\ total = 0 /\ out = <<>> /\ lruns = 1
    /\ GeneratorIdle

NextLoad ==
    \/ WarnMissing
    \/ LoadTableOk
    \/ LoadTableReadError
    \/ LoadTableWriteError
    \/ PrintTotal
    \/ LoaderRerun

SpecLoad == InitLoad /\ [][NextLoad]_vars

-----------------------------------------------------------------------------
(* Claims about the loader (SpecLoad) *)

RECURSIVE ExpectedLog(_)
\* what main() has printed once its loop is past the first k mappings
ExpectedLog(k) ==
    IF k = 0 THEN <<>>
    ELSE Append(ExpectedLog(k - 1),
                IF files[tables[k]].exists
                THEN <<"Loaded", tables[k], Len(files[tables[k]].rows)>>
                ELSE <<"WARNING", tables[k]>>)

RECURSIVE RowsInFiles(_)
\* rows of the files that exist among the first k mappings
RowsInFiles(k) ==
    IF k = 0 THEN 0
    ELSE RowsInFiles(k - 1)
         + (IF files[tables[k]].exists THEN Len(files[tables[k]].rows) ELSE 0)

C2_FailureAbandonsOneTable ==
    lpc \in {"done", "crashed"} =>
        /\ lidx = NTables + 1
        /\ Len(out) > 0 /\ out[Len(out)][1] = "Total"

-----------------------------------------------------------------------------
(* Claims about the generator *)

\* the frame the script holds for a file name
Frame(f) ==
    CASE f = "dim_date" -> dim_date
      [] f = "dim_store" -> dim_store
      [] f = "dim_product" -> dim_product
      [] f = "fact_transactions" -> fact_transactions
      [] f = "fact_labour" -> fact_labour
      [] f = "fact_shrinkage" -> fact_shrinkage

\* generate_fact_transactions has returned its table to the script
TxnReturned ==
    pc \in {"gen_labour", "gen_shrinkage", "write_fact_transactions",
            "write_fact_labour", "write_fact_shrinkage", "done"}

\* generate_fact_transactions was left by an exception raised for a row
TxnRaised == pc = "crashed" /\ n_transactions > 0

\* C4 (as claimed): with a non-positive N_STORES, N_PRODUCTS or N_DAYS the run
\* aborts and writes no output file.
C4_InvalidConfigWritesNothing ==
    (N_STORES <= 0 \/ N_PRODUCTS <= 0 \/ N_DAYS <= 0) =>
        /\ pc # "done"
        /\ \A f \in FileNames : ~files[f].exists

\* C5 (as claimed): a transaction that takes the duplicate-injection branch
\* gets the transaction id of a row generated earlier.
C5_DuplicateReusesEarlierId ==
    (pc = "txn_append" /\ cur.branch = "duplicate") =>
        \E k \in 1..Len(transactions) :
            transactions[k].transaction_id = FormatTid(cur.tid_val)

C7_LabourOneRowPerStoreDay ==
    (pc = "gen_shrinkage" /\ N_STORES >= 0 /\ N_DAYS >= 0) =>
        /\ Len(fact_labour) = N_STORES * N_DAYS
        /\ \A s \in 1..N_STORES : \A d \in 1..N_DAYS :
              Cardinality({k \in 1..Len(fact_labour) :
                              /\ fact_labour[k].store_id = s
                              /\ fact_labour[k].shift_date = dim_date[d].full_date}) = 1

\* C7 witness: the function has returned for two stores and two days.
C7_Witness ==
    /\ pc = "gen_shrinkage" /\ N_STORES = 2 /\ N_DAYS = 2
    /\ Len(fact_labour) = 4
    /\ fact_labour[1].contracted_hours # fact_labour[2].contracted_hours

\* the calendar date a full_date string names
DateOfString(s) ==
    [year  |-> ParseInt(SubSeq(s, 1, 4)),
     month |-> ParseInt(SubSeq(s, 6, 7)),
     day   |-> ParseInt(SubSeq(s, 9, 10))]

\* b is the calendar day after a
IsNextDay(a, b) ==
    IF a.day < DaysInMonth(a.year, a.month)
    THEN b = [a EXCEPT !.day = a.day + 1]
    ELSE IF a.month < 12
    THEN b = [year |-> a.year, month |-> a.month + 1, day |-> 1]
    ELSE b = [year |-> a.year + 1, month |-> 1, day |-> 1]

\* C8: generate_dim_date returns exactly N_DAYS rows, one per consecutive
\* calendar day from START_DATE, and fiscal_week never decreases from a row
\* to the next.
C8_DateDimension ==
    (pc = "gen_dim_store" /\ N_DAYS >= 0) =>
        /\ Len(dim_date) = N_DAYS
        /\ N_DAYS >= 1 => DateOfString(dim_date[1].full_date) = START_DATE
        /\ \A k \in 1..(N_DAYS - 1) :
              /\ IsNextDay(DateOfString(dim_date[k].full_date),
                           DateOfString(dim_date[k + 1].full_date))
              /\ dim_date[k].fiscal_week <= dim_date[k + 1].fiscal_week

\* C8 witness: a table that runs past a leap day and a year end, whose
\* fiscal week has grown.
C8_Witness ==
    /\ pc = "gen_dim_store" /\ N_DAYS = MaxDays
    /\ dim_date[N_DAYS].year > dim_date[1].year
    /\ dim_date[N_DAYS].fiscal_week > 52
    /\ \E k \in 1..N_DAYS : dim_date[k].month = 2 /\ DateOfString(dim_date[k].full_date).day = 29

\* C9 (as claimed): generate_fact_transactions returns a table, and the table
\* never has more than SAMPLE_CAP rows: all the raw rows, unchanged, when they
\* do not exceed the cap, and exactly SAMPLE_CAP of them, each a raw row and
\* none kept twice, when they do.
C9_CapKeepsRawRows ==
    /\ ~TxnRaised
    /\ TxnReturned =>
          /\ Len(fact_transactions) <= SAMPLE_CAP
          /\ Len(transactions) <= SAMPLE_CAP => fact_transactions = transactions
          /\ Len(transactions) > SAMPLE_CAP =>
                /\ Len(fact_transactions) = SAMPLE_CAP
                /\ \E keep \in [1..SAMPLE_CAP -> 1..Len(transactions)] :
                      /\ \A k, m \in 1..SAMPLE_CAP : keep[k] = keep[m] => k = m
                      /\ \A k \in 1..SAMPLE_CAP :
                            fact_transactions[k] = transactions[keep[k]]

\* C10 (as claimed): the call for a configuration returns, and every
\* (store, date) pair of the configuration has at least one row in the table
\* it returns.
C10_EveryStoreDayHasRows ==
    /\ ~TxnRaised
    /\ TxnReturned =>
          \A s \in 1..N_STORES : \A d \in 1..Len(dim_date) :
              \E k \in 1..Len(fact_transactions) :
                  /\ fact_transactions[k].store_id = s
                  /\ fact_transactions[k].transaction_date = dim_date[d].full_date

=============================================================================
